---- MODULE Spec2Model ----
(***************************************************************************)
(* V2V-OSM: the keyed vehicle relation store (vehicles.py, class Vehicles) *)
(* and the two simulation drivers of main_sim_osm_pathloss.py (main_sim,   *)
(* single-center mode; main_sim_multi, all-pairs mode).                    *)
(* Further down: prepare_network with add_geometry, choose_random_streets  *)
(* and generate_vehs, and load_network with load_place and download_place  *)
(* (vtovosm/osmnx_addons.py).                                              *)
(*                                                                         *)
(* numpy arrays are sequences; the 0-based index i of the code is element  *)
(* i+1 of the sequence.  A scalar index (key 'center') is a sequence of    *)
(* length one.  Vehicles stand on the line y = 0 at integer x, so that the *)
(* Euclidean distance sqrt(dx^2 + dy^2) of the code is exactly |dx|.       *)
(***************************************************************************)
EXTENDS Integers, Sequences, FiniteSets, TLC

VARIABLES
    vehs,                  \* the Vehicles object
    ret,                   \* the last call made on the store and how it ended
    pc,                    \* position in main_sim / main_sim_multi
    max_pl,                \* main_sim parameter
    is_nlos,               \* result of the NLOS classifier
    is_olos,               \* result of the OLOS classifier
    is_orthogonal,         \* result of check_if_cons_orthogonal
    coords_intersections,  \* second result of check_if_cons_orthogonal
    max_dist_olos_los,     \* main_sim_multi parameter
    max_dist_nlos,         \* main_sim_multi parameter
    blocked,               \* buildings: which sightlines cross a building
    graph_cons,            \* edges of the connectivity graph
    net_connectivity,      \* <<numerator, denominator>> of the ratio returned
    calls,                 \* the calls main_sim has made on the store, in order
    graph_streets,         \* the street graph of prepare_network / load_network
    prep,                  \* the locals of prepare_network
    disk,                  \* the files under data/
    load                   \* the locals of load_network

vars == <<vehs, ret, pc, max_pl, is_nlos, is_olos, is_orthogonal,
          coords_intersections, max_dist_olos_los, max_dist_nlos,
          blocked, graph_cons, net_connectivity, calls, graph_streets,
          prep, disk, load>>

netVars == <<graph_streets, prep, disk, load>>

simVars == <<max_pl, is_nlos, is_olos, is_orthogonal, coords_intersections,
             max_dist_olos_los, max_dist_nlos, blocked, graph_cons,
             net_connectivity>>

-----------------------------------------------------------------------------
(* Bounds *)

\* largest size given to allocate, and largest vehicle count of the store runs
MaxSize == 2
\* longest index array registered under a key and longest value array written
MaxKeyLen == 2

\* values written into the relation arrays by the store runs
StoreValues == {0, 1}
\* indices the store runs register under a key
KeyIndices == {0, 1}

\* Python's None, which is no label
None == "<None>"
\* the one label the store runs register, and the labels they call with
RegLabels == {"a"}
CallLabels == {"a", "b", "all"}
SetLabels == {"a", "b", "all"}

\* largest vehicle count of the simulation runs
MaxVeh == 3
\* vehicles of the single-center runs stand at x in 0..MaxCoord
MaxCoord == 1
\* largest max_pl of the single-center runs
MaxPl == 4
\* vehicles of the all-pairs runs stand at x in 0..MaxPos
MaxPos == 2
\* largest range threshold of the all-pairs runs
MaxDist == 1

SeqsUpTo(S, n) == UNION {[1..m -> S] : m \in 0..n}

-----------------------------------------------------------------------------
(* numpy *)

\* np.zeros(size)
Zeros(size) == [i \in 1..size |-> 0]
\* np.zeros(size, dtype=bool)
Falses(size) == [i \in 1..size |-> FALSE]

\* every index of idx addresses an element of arr
InBounds(arr, idx) == \A i \in 1..Len(idx) : idx[i] < Len(arr)

\* arr[idx]
Gather(arr, idx) == [i \in 1..Len(idx) |-> arr[idx[i] + 1]]

\* a shape check that lets any non-empty value array through
Broadcastable_nonempty(idx, values) == Len(values) = Len(idx) \/ Len(values) >= 1

\* values can be broadcast to the shape of arr[idx]
Broadcastable(idx, values) == Len(values) = Len(idx) \/ Len(values) = 1

\* values as broadcast to the shape of arr[idx]
Broadcast(idx, values) ==
    [i \in 1..Len(idx) |-> IF Len(values) = Len(idx) THEN values[i] ELSE values[1]]

\* the positions of idx that address element p (0-based) of the array
Hits(idx, p) == {i \in 1..Len(idx) : idx[i] = p}

Max(S) == CHOOSE x \in S : \A y \in S : y <= x

\* an assignment that hands the values out in array order, as a mask would
Scatter_as_mask(arr, idx, values) ==
    [p \in 1..Len(arr) |->
        IF Hits(idx, p - 1) = {} THEN arr[p]
        ELSE Broadcast(idx, values)[Cardinality({j \in 1..Len(idx) : idx[j] <= p - 1})]]

\* arr[idx] = values: with an index repeated in idx the last write stays
Scatter(arr, idx, values) ==
    [p \in 1..Len(arr) |->
        IF Hits(idx, p - 1) = {} THEN arr[p]
        ELSE Broadcast(idx, values)[Max(Hits(idx, p - 1))]]

\* the outcome of arr[idx] = values
ScatterStatus(arr, idx, values) ==
    IF ~Broadcastable(idx, values) THEN "ValueError"
    ELSE IF ~InBounds(arr, idx) THEN "IndexError"
    ELSE "ok"

\* np.arange(n)
ARange(n) == [i \in 1..n |-> i - 1]

\* np.invert(m)
\* an np.invert that gives the mask back as it is
Invert_same(m) == [i \in 1..Len(m) |-> m[i]]

Invert(m) == [i \in 1..Len(m) |-> ~m[i]]

\* arr[m] for a boolean mask m: the elements of arr where m holds, in order
Mask(arr, m) ==
    LET on == {i \in 1..Len(m) : m[i]}
        nth(k) == CHOOSE i \in on : Cardinality({j \in on : j <= i}) = k
    IN  [k \in 1..Cardinality(on) |-> arr[nth(k)]]

\* np.sum(m) for a boolean mask m
CountTrue(m) == Cardinality({i \in 1..Len(m) : m[i]})

Abs(x) == IF x < 0 THEN -x ELSE x

\* np.Infinity, above every value the runs compare it with
Infinity == 1000

\* a < b for numpy floats
Less(a, b) == IF a = Infinity THEN FALSE ELSE a < b

-----------------------------------------------------------------------------
(* class Vehicles *)

NoKeys == [k \in {} |-> <<>>]

\* Vehicles(points, graphs): vehicle k has the local graph of node 'v'+k
Vehicles(points) ==
    [count       |-> Len(points),
     points      |-> points,
     coordinates |-> points,
     graphs      |-> [i \in 1..Len(points) |-> i - 1],
     pathlosses  |-> Zeros(0),
     distances   |-> Zeros(0),
     nlos        |-> Falses(0),
     idxs        |-> NoKeys]

\* an allocate that forgets the distance array
allocate_keeps_distances(v, size) ==
    [v EXCEPT !.pathlosses = Zeros(size),
              !.nlos       = Falses(size)]

allocate(v, size) ==
    [v EXCEPT !.pathlosses = Zeros(size),
              !.distances  = Zeros(size),
              !.nlos       = Falses(size)]

add_key(v, key, value) ==
    [v EXCEPT !.idxs = [k \in (DOMAIN v.idxs) \cup {key} |->
                            IF k = key THEN value ELSE v.idxs[k]]]

Raise(status) == [status |-> status, value |-> <<>>]
Return(value) == [status |-> "ok", value |-> value]

\* arr[self.idxs[key]]
Lookup(v, arr, key) ==
    IF key \notin DOMAIN v.idxs THEN Raise("KeyError")
    ELSE IF ~InBounds(arr, v.idxs[key]) THEN Raise("IndexError")
    ELSE Return(Gather(arr, v.idxs[key]))

get(v, key) ==
    IF key = None \/ key = "all" THEN Return(v.coordinates)
    ELSE Lookup(v, v.coordinates, key)

get_points(v, key) ==
    IF key = None THEN Return(v.points)
    ELSE Lookup(v, v.points, key)

get_graph(v, key) ==
    IF key = None THEN Return(v.graphs)
    ELSE Lookup(v, v.graphs, key)

get_idxs(v, key) ==
    IF key \notin DOMAIN v.idxs THEN Raise("KeyError")
    ELSE Return(v.idxs[key])

get_pathlosses(v, key) ==
    IF key = None \/ key = "all" THEN Return(v.pathlosses)
    ELSE Lookup(v, v.pathlosses, key)

\* a get_distances that knows the label "all", as get_pathlosses does
get_distances_all(v, key) ==
    IF key = None \/ key = "all" THEN Return(v.distances)
    ELSE Lookup(v, v.distances, key)

get_distances(v, key) ==
    IF key = None THEN Return(v.distances)
    ELSE Lookup(v, v.distances, key)

\* the outcome of arr[self.idxs[key]] = values
AssignStatus(v, arr, key, values) ==
    IF key \notin DOMAIN v.idxs THEN "KeyError"
    ELSE ScatterStatus(arr, v.idxs[key], values)

set_pathlosses_status(v, key, values) == AssignStatus(v, v.pathlosses, key, values)

set_pathlosses(v, key, values) ==
    IF set_pathlosses_status(v, key, values) # "ok" THEN v
    ELSE [v EXCEPT !.pathlosses = Scatter(v.pathlosses, v.idxs[key], values)]

set_distances_status(v, key, values) == AssignStatus(v, v.distances, key, values)

set_distances(v, key, values) ==
    IF set_distances_status(v, key, values) # "ok" THEN v
    ELSE [v EXCEPT !.distances = Scatter(v.distances, v.idxs[key], values)]

-----------------------------------------------------------------------------
(* Runs of the store: any sequence of calls *)

Call(op, key, values, status) ==
    [op |-> op, key |-> key, values |-> values, status |-> status]

NoCall == Call("none", None, <<>>, "ok")

GetOps == {"get", "get_points", "get_graph", "get_idxs", "get_pathlosses",
           "get_distances"}

GetResult(v, op, key) ==
    CASE op = "get"            -> get(v, key)
      [] op = "get_points"     -> get_points(v, key)
      [] op = "get_graph"      -> get_graph(v, key)
      [] op = "get_idxs"       -> get_idxs(v, key)
      [] op = "get_pathlosses" -> get_pathlosses(v, key)
      [] op = "get_distances"  -> get_distances(v, key)

\* prepare_network and load_network not started
IdleNet ==
    /\ graph_streets = <<>>
    /\ prep = <<>>
    /\ disk = <<>>
    /\ load = <<>>

IdleSim ==
    /\ calls = <<>>
    /\ max_pl = 0
    /\ is_nlos = <<>>
    /\ is_olos = <<>>
    /\ is_orthogonal = <<>>
    /\ coords_intersections = <<>>
    /\ max_dist_olos_los = 0
    /\ max_dist_nlos = 0
    /\ blocked = <<>>
    /\ graph_cons = [nodes |-> {}, edges |-> {}]
    /\ net_connectivity = <<0, 1>>

InitStore ==
    /\ vehs = Vehicles([i \in 1..MaxSize |-> i - 1])
    /\ ret = NoCall
    /\ pc = "store"
    /\ IdleSim
    /\ IdleNet

CallAllocate ==
    \E size \in 0..MaxSize :
        /\ vehs' = allocate(vehs, size)
        /\ ret' = Call("allocate", None, <<size>>, "ok")

CallAddKey ==
    \E key \in RegLabels, value \in SeqsUpTo(KeyIndices, MaxKeyLen) :
        /\ vehs' = add_key(vehs, key, value)
        /\ ret' = Call("add_key", key, value, "ok")

CallGet ==
    \E op \in GetOps, key \in CallLabels \cup {None} :
        /\ vehs' = vehs
        /\ ret' = Call(op, key, <<>>, GetResult(vehs, op, key).status)

CallSetPathlosses ==
    \E key \in SetLabels, values \in SeqsUpTo(StoreValues, MaxKeyLen) :
        /\ vehs' = set_pathlosses(vehs, key, values)
        /\ ret' = Call("set_pathlosses", key, values,
                       set_pathlosses_status(vehs, key, values))

CallSetDistances ==
    \E key \in SetLabels, values \in SeqsUpTo(StoreValues, MaxKeyLen) :
        /\ vehs' = set_distances(vehs, key, values)
        /\ ret' = Call("set_distances", key, values,
                       set_distances_status(vehs, key, values))

NextStore ==
    /\ pc = "store"
    /\ \/ CallAllocate
       \/ CallAddKey
       \/ CallGet
       \/ CallSetPathlosses
       \/ CallSetDistances
    /\ UNCHANGED <<pc, simVars, calls, netVars>>

SpecStore == InitStore /\ [][NextStore]_vars

-----------------------------------------------------------------------------
(* Claims about the store *)

Distinct(idx) == \A i, j \in 1..Len(idx) : i # j => idx[i] # idx[j]

KeyedOps == GetOps \cup {"set_pathlosses", "set_distances"}

\* C7, as stated: after allocate(size) the three relation arrays have length
\* size and hold only zero/false, and no key defined before the call can
\* still be read through.
C7_AllocateInvalidatesKeys ==
    ret.op = "allocate" =>
        /\ vehs.pathlosses = Zeros(ret.values[1])
        /\ vehs.distances = Zeros(ret.values[1])
        /\ vehs.nlos = Falses(ret.values[1])
        /\ \A k \in DOMAIN vehs.idxs :
              /\ get_pathlosses(vehs, k).status # "ok"
              /\ get_distances(vehs, k).status # "ok"

\* C7, amended: allocate(size) leaves the three relation arrays of length
\* size holding only zero/false and leaves every key as it was; a read
\* through an earlier key succeeds with the old indices (and returns zeros)
\* when they all lie below size, and fails with an index error otherwise.
C7_AllocateZeroesAndKeepsKeys ==
    [][ret'.op = "allocate" =>
        LET size == ret'.values[1] IN
        /\ vehs'.pathlosses = Zeros(size)
        /\ vehs'.distances = Zeros(size)
        /\ vehs'.nlos = Falses(size)
        /\ vehs'.idxs = vehs.idxs
        /\ \A k \in DOMAIN vehs.idxs :
              LET old == vehs.idxs[k]
                  want == IF \A i \in 1..Len(old) : old[i] < size
                          THEN Return(Zeros(Len(old)))
                          ELSE Raise("IndexError") IN
              /\ get_idxs(vehs', k) = Return(old)
              /\ get_pathlosses(vehs', k) = want
              /\ get_distances(vehs', k) = want]_vars

\* C7 witness: allocate has just run on a store holding a non-empty key, and
\* the key still reads.
C7_Witness ==
    /\ ret.op = "allocate"
    /\ \E k \in DOMAIN vehs.idxs :
          /\ Len(vehs.idxs[k]) = 2
          /\ get_pathlosses(vehs, k) = Return(<<0, 0>>)

\* C8, as stated: set_pathlosses fails with a shape mismatch, and writes
\* nothing, whenever the number of values differs from the number of indices
\* under the label, a single value for several indices included.
C8_MismatchAlwaysFails ==
    [][(/\ ret'.op = "set_pathlosses"
        /\ ret'.key \in DOMAIN vehs.idxs
        /\ Len(ret'.values) # Len(vehs.idxs[ret'.key]))
       => (ret'.status = "ValueError" /\ vehs' = vehs)]_vars

\* C8, amended: set_pathlosses fails with a shape mismatch, and writes
\* nothing, whenever the number of values differs from the number of indices
\* under the label and is not one; a single value is not a mismatch: it is
\* written to every index of the key (an index error aside).
C8_MismatchFailsUnlessSingle ==
    [][(/\ ret'.op = "set_pathlosses"
        /\ ret'.key \in DOMAIN vehs.idxs
        /\ Len(ret'.values) # Len(vehs.idxs[ret'.key]))
       => LET idx == vehs.idxs[ret'.key] IN
          IF Len(ret'.values) # 1
          THEN ret'.status = "ValueError" /\ vehs' = vehs
          ELSE IF \A i \in 1..Len(idx) : idx[i] < Len(vehs.pathlosses)
          THEN /\ ret'.status = "ok"
               /\ \A i \in 1..Len(idx) :
                     vehs'.pathlosses[idx[i] + 1] = ret'.values[1]
          ELSE ret'.status = "IndexError" /\ vehs' = vehs]_vars

\* C8 witness: two values were refused for a key of one index, on a store
\* that holds a written pathloss.
C8_Witness ==
    /\ ret.op = "set_pathlosses"
    /\ ret.status = "ValueError"
    /\ ret.key \in DOMAIN vehs.idxs
    /\ Len(ret.values) = 2
    /\ Len(vehs.idxs[ret.key]) = 1
    /\ \E p \in 1..Len(vehs.pathlosses) : vehs.pathlosses[p] = 1

\* C9, as stated: with a label that add_key never registered, every getter
\* and setter fails with a missing-key error, returns no default and leaves
\* the store unchanged.
C9_UnregisteredAlwaysKeyError ==
    [][(/\ ret'.op \in KeyedOps
        /\ ret'.key # None
        /\ ret'.key \notin DOMAIN vehs.idxs)
       => (ret'.status = "KeyError" /\ vehs' = vehs)]_vars

\* C9, amended: with a label that add_key never registered, get_points,
\* get_graph, get_idxs, get_distances, set_pathlosses and set_distances fail
\* with a missing-key error, and so do get and get_pathlosses unless the
\* label is "all", for which they return the full coordinate array and the
\* full pathloss array; the store is unchanged in every case.
C9_UnregisteredKeyErrorExceptAll ==
    [][(/\ ret'.op \in KeyedOps
        /\ ret'.key # None
        /\ ret'.key \notin DOMAIN vehs.idxs)
       => /\ vehs' = vehs
          /\ IF ret'.key = "all" /\ ret'.op \in {"get", "get_pathlosses"}
             THEN /\ ret'.status = "ok"
                  /\ get(vehs, "all") = Return(vehs.coordinates)
                  /\ get_pathlosses(vehs, "all") = Return(vehs.pathlosses)
             ELSE /\ ret'.status = "KeyError"
                  /\ ret'.op \in GetOps =>
                        GetResult(vehs, ret'.op, ret'.key) = Raise("KeyError")]_vars

\* C9 witness: get_distances("all") has just failed with a missing-key error
\* on a store that holds a key and an allocated, written distance array.
C9_Witness ==
    /\ ret = Call("get_distances", "all", <<>>, "KeyError")
    /\ DOMAIN vehs.idxs # {}
    /\ \E p \in 1..Len(vehs.distances) : vehs.distances[p] = 1

\* C10, as stated: for a key of distinct indices within the allocated size,
\* get_pathlosses after set_pathlosses(label, values) returns exactly values,
\* and the write changes no other pathloss entry, no distance, no NLOS flag,
\* no key and no position.
C10_ReadBackExactlyValues ==
    [][(/\ ret'.op = "set_pathlosses"
        /\ ret'.status = "ok"
        /\ Distinct(vehs.idxs[ret'.key]))
       => /\ get_pathlosses(vehs', ret'.key) = Return(ret'.values)
          /\ \A p \in 1..Len(vehs.pathlosses) :
                Hits(vehs.idxs[ret'.key], p - 1) = {} =>
                    vehs'.pathlosses[p] = vehs.pathlosses[p]
          /\ vehs' = [vehs EXCEPT !.pathlosses = vehs'.pathlosses]]_vars

\* C10, amended: for a key of distinct indices within the allocated size and
\* as many values as the key has indices, get_pathlosses after
\* set_pathlosses(label, values) returns exactly values in the same order (a
\* single value given for a key of another length is read back once per
\* index); the write changes no other pathloss entry, no distance, no NLOS
\* flag, no key and no position.
C10_ReadBackValuesOfEqualLength ==
    [][(/\ ret'.op = "set_pathlosses"
        /\ ret'.status = "ok"
        /\ Distinct(vehs.idxs[ret'.key]))
       => LET idx == vehs.idxs[ret'.key] IN
          /\ Len(ret'.values) = Len(idx) =>
                get_pathlosses(vehs', ret'.key) = Return(ret'.values)
          /\ Len(ret'.values) # Len(idx) =>
                get_pathlosses(vehs', ret'.key) =
                    Return([i \in 1..Len(idx) |-> ret'.values[1]])
          /\ Len(vehs'.pathlosses) = Len(vehs.pathlosses)
          /\ \A p \in 1..Len(vehs.pathlosses) :
                Hits(idx, p - 1) = {} => vehs'.pathlosses[p] = vehs.pathlosses[p]
          /\ vehs'.distances = vehs.distances
          /\ vehs'.nlos = vehs.nlos
          /\ vehs'.idxs = vehs.idxs
          /\ vehs'.points = vehs.points
          /\ vehs'.coordinates = vehs.coordinates
          /\ vehs'.graphs = vehs.graphs
          /\ vehs'.count = vehs.count]_vars

\* C10 witness: two different values were written through a key listing two
\* indices in descending order and read back in that order, beside a written
\* distance.
C10_Witness ==
    /\ ret = Call("set_pathlosses", "a", <<1, 0>>, "ok")
    /\ vehs.idxs["a"] = <<1, 0>>
    /\ get_pathlosses(vehs, "a") = Return(<<1, 0>>)
    /\ vehs.pathlosses = <<0, 1>>
    /\ vehs.distances = <<1, 0>>

-----------------------------------------------------------------------------
(* main_sim: the connections from the center vehicle to all others *)

\* geom_o.find_center_veh: the vehicle closest to the centroid of all
\* positions, the first such index on a tie
find_center_veh(coords) ==
    LET n == Len(coords)
        RECURSIVE sum(_)
        sum(k) == IF k = 0 THEN 0 ELSE coords[k] + sum(k - 1)
        off(i) == Abs(n * coords[i] - sum(n))
        best == CHOOSE i \in 1..n :
                   /\ \A j \in 1..n : off(i) <= off(j)
                   /\ \A j \in 1..(i - 1) : off(j) > off(i)
    IN  best - 1

\* the Pathloss Model: loss in dB, growing with the distance
pathloss_los(d) == d + 1
pathloss_olos(d) == d + 2
pathloss_nlos(d_rx, d_tx) == d_rx + d_tx + 3

\* np.where(np.arange(count_veh) != idx_center_veh)[0]
\* (the variant lists every vehicle, the center included)
idxs_other_vehs_all(count_veh, idx_center_veh) == ARange(count_veh)

idxs_other_vehs(count_veh, idx_center_veh) ==
    Mask(ARange(count_veh), [i \in 1..count_veh |-> i - 1 # idx_center_veh])

\* sqrt((xs - x)^2 + (ys - y)^2), elementwise, on the line y = 0
Distances(xs, x) == [i \in 1..Len(xs) |-> Abs(xs[i] - x)]

\* -p_loss.pathloss_olos(distances_olos_los[is_olos])
pathlosses_olos(distances) ==
    [i \in 1..Len(distances) |-> -pathloss_olos(distances[i])]

\* -p_loss.pathloss_los(distances_olos_los[is_los])
pathlosses_los(distances) ==
    [i \in 1..Len(distances) |-> -pathloss_los(distances[i])]

\* p_loss.pathloss_nlos(distances_orth_rx, distances_orth_tx)
pathlosses_orth(distances_rx, distances_tx) ==
    [i \in 1..Len(distances_rx) |-> pathloss_nlos(distances_rx[i], distances_tx[i])]

\* a parallel pathloss negated as the OLOS/LOS ones are
pathlosses_par_negated(count) == [i \in 1..count |-> -Infinity]

\* np.Infinity * np.ones(np.sum(is_parallel))
pathlosses_par(count) == [i \in 1..count |-> Infinity]

\* vehs.get_pathlosses('other') < max_pl
in_range_mask(pathlosses, threshold) ==
    [i \in 1..Len(pathlosses) |-> Less(pathlosses[i], threshold)]

IdleMulti ==
    /\ max_dist_olos_los = 0
    /\ max_dist_nlos = 0
    /\ blocked = <<>>
    /\ graph_cons = [nodes |-> {}, edges |-> {}]
    /\ net_connectivity = <<0, 1>>

\* a call of main_sim on a relation of the store, with the indices of the
\* pathloss array it wrote or read
RelCall(op, key, idxs) == [op |-> op, key |-> key, idxs |-> idxs]

InitSim ==
    /\ \E n \in 1..MaxVeh : \E points \in [1..n -> 0..MaxCoord] :
          vehs = Vehicles(points)
    /\ max_pl \in 0..MaxPl
    /\ ret = NoCall
    /\ pc = "initialize"
    /\ is_nlos = <<>>
    /\ is_olos = <<>>
    /\ is_orthogonal = <<>>
    /\ coords_intersections = <<>>
    /\ calls = <<>>
    /\ IdleNet
    /\ IdleMulti

SimFrame == UNCHANGED <<ret, max_pl, max_dist_olos_los, max_dist_nlos, blocked,
                        graph_cons, net_connectivity, netVars>>

\* lines 153-158
SimInitialize ==
    /\ pc = "initialize"
    /\ vehs' = allocate(vehs, vehs.count)
    /\ calls' = Append(calls, RelCall("allocate", None, <<>>))
    /\ pc' = "find_center"
    /\ UNCHANGED <<is_nlos, is_olos, is_orthogonal, coords_intersections>>
    /\ SimFrame

\* lines 160-165
SimFindCenter ==
    /\ pc = "find_center"
    /\ LET idx_center_veh == find_center_veh(get(vehs, None).value)
           others == idxs_other_vehs(vehs.count, idx_center_veh)
       IN  vehs' = add_key(add_key(vehs, "center", <<idx_center_veh>>),
                           "other", others)
    /\ pc' = "nlos"
    /\ UNCHANGED calls
    /\ UNCHANGED <<is_nlos, is_olos, is_orthogonal, coords_intersections>>
    /\ SimFrame

\* lines 167-175: the classifier answers for each other vehicle
SimNlos ==
    /\ pc = "nlos"
    /\ \E result \in [1..Len(get_points(vehs, "other").value) -> BOOLEAN] :
          /\ is_nlos' = result
          /\ vehs' = add_key(add_key(vehs, "nlos",
                                      Mask(get_idxs(vehs, "other").value, result)),
                              "olos_los",
                              Mask(get_idxs(vehs, "other").value, Invert(result)))
    /\ pc' = "olos"
    /\ UNCHANGED calls
    /\ UNCHANGED <<is_olos, is_orthogonal, coords_intersections>>
    /\ SimFrame

\* lines 177-185
SimOlos ==
    /\ pc = "olos"
    /\ \E result \in [1..Len(get_points(vehs, "olos_los").value) -> BOOLEAN] :
          /\ is_olos' = result
          /\ vehs' = add_key(add_key(vehs, "olos",
                                      Mask(get_idxs(vehs, "olos_los").value, result)),
                              "los",
                              Mask(get_idxs(vehs, "olos_los").value, Invert(result)))
    /\ pc' = "orth"
    /\ UNCHANGED calls
    /\ UNCHANGED <<is_nlos, is_orthogonal, coords_intersections>>
    /\ SimFrame

\* lines 187-199: the intersection of a parallel connection is never read
\* and stands at 0 here
SimOrth ==
    /\ pc = "orth"
    /\ \E result \in [1..Len(get_graph(vehs, "nlos").value) -> BOOLEAN] :
       \E coords \in [1..Len(result) -> 0..MaxCoord] :
          /\ \A i \in 1..Len(result) : ~result[i] => coords[i] = 0
          /\ is_orthogonal' = result
          /\ coords_intersections' = coords
          /\ vehs' = add_key(add_key(vehs, "orth",
                                      Mask(get_idxs(vehs, "nlos").value, result)),
                              "par",
                              Mask(get_idxs(vehs, "nlos").value, Invert(result)))
    /\ pc' = "pathloss_olos_los"
    /\ UNCHANGED calls
    /\ UNCHANGED <<is_nlos, is_olos>>
    /\ SimFrame

\* lines 201-217
SimPathlossOlosLos ==
    /\ pc = "pathloss_olos_los"
    /\ LET distances_olos_los ==
               Distances(get(vehs, "olos_los").value, get(vehs, "center").value[1])
           values_olos == pathlosses_olos(Mask(distances_olos_los, is_olos))
           values_los == pathlosses_los(Mask(distances_olos_los, Invert(is_olos)))
           after_olos == set_pathlosses(vehs, "olos", values_olos)
       IN  /\ IF /\ set_pathlosses_status(vehs, "olos", values_olos) = "ok"
                 /\ set_pathlosses_status(after_olos, "los", values_los) = "ok"
              THEN /\ vehs' = set_pathlosses(after_olos, "los", values_los)
                   /\ pc' = "pathloss_nlos"
              ELSE /\ vehs' = after_olos
                   /\ pc' = "failed"
           /\ calls' = calls
                 \o <<RelCall("set_pathlosses", "olos", get_idxs(vehs, "olos").value)>>
                 \o (IF set_pathlosses_status(vehs, "olos", values_olos) = "ok"
                     THEN <<RelCall("set_pathlosses", "los",
                                    get_idxs(vehs, "los").value)>>
                     ELSE <<>>)
    /\ UNCHANGED <<is_nlos, is_olos, is_orthogonal, coords_intersections>>
    /\ SimFrame

\* lines 219-237
SimPathlossNlos ==
    /\ pc = "pathloss_nlos"
    /\ LET corners == Mask(coords_intersections, is_orthogonal)
           distances_orth_tx ==
               [i \in 1..Len(corners) |-> Abs(get(vehs, "orth").value[i] - corners[i])]
           distances_orth_rx == Distances(corners, get(vehs, "center").value[1])
           values_orth == pathlosses_orth(distances_orth_rx, distances_orth_tx)
           values_par == pathlosses_par(CountTrue(Invert(is_orthogonal)))
           after_orth == set_pathlosses(vehs, "orth", values_orth)
       IN  /\ IF /\ set_pathlosses_status(vehs, "orth", values_orth) = "ok"
                 /\ set_pathlosses_status(after_orth, "par", values_par) = "ok"
              THEN /\ vehs' = set_pathlosses(after_orth, "par", values_par)
                   /\ pc' = "in_range"
              ELSE /\ vehs' = after_orth
                   /\ pc' = "failed"
           /\ calls' = calls
                 \o <<RelCall("set_pathlosses", "orth", get_idxs(vehs, "orth").value)>>
                 \o (IF set_pathlosses_status(vehs, "orth", values_orth) = "ok"
                     THEN <<RelCall("set_pathlosses", "par",
                                    get_idxs(vehs, "par").value)>>
                     ELSE <<>>)
    /\ UNCHANGED <<is_nlos, is_olos, is_orthogonal, coords_intersections>>
    /\ SimFrame

\* lines 239-246
SimInRange ==
    /\ pc = "in_range"
    /\ LET idxs_in_range == in_range_mask(get_pathlosses(vehs, "other").value, max_pl)
       IN  vehs' = add_key(add_key(vehs, "in_range",
                                   Mask(get_idxs(vehs, "other").value, idxs_in_range)),
                           "out_range",
                           Mask(get_idxs(vehs, "other").value, Invert(idxs_in_range)))
    /\ calls' = Append(calls, RelCall("get_pathlosses", "other",
                                      get_idxs(vehs, "other").value))
    /\ pc' = "done"
    /\ UNCHANGED <<is_nlos, is_olos, is_orthogonal, coords_intersections>>
    /\ SimFrame

NextSim ==
    \/ SimInitialize
    \/ SimFindCenter
    \/ SimNlos
    \/ SimOlos
    \/ SimOrth
    \/ SimPathlossOlosLos
    \/ SimPathlossNlos
    \/ SimInRange

SpecSim == InitSim /\ [][NextSim]_vars

-----------------------------------------------------------------------------
(* Claims about main_sim *)

\* the vehicles listed under a key
Members(k) == {vehs.idxs[k][i] : i \in 1..Len(vehs.idxs[k])}

\* two keys that share no vehicle and together list exactly the vehicles of
\* a third, each of them once
Splits(a, b, whole) ==
    /\ Members(a) \cap Members(b) = {}
    /\ Members(a) \cup Members(b) = Members(whole)
    /\ Distinct(vehs.idxs[a])
    /\ Distinct(vehs.idxs[b])

CenterVeh == vehs.idxs["center"][1]

\* C1: when main_sim has completed, every vehicle other than the center is
\* in exactly one of 'los', 'olos', 'orth', 'par'; 'olos' and 'los' make up
\* 'olos_los', 'orth' and 'par' make up 'nlos', 'olos_los' and 'nlos' are
\* disjoint and make up 'other', and the center is in none of these keys.
C1_ClassesPartitionOthers ==
    pc = "done" =>
        /\ \A i \in 0..(vehs.count - 1) :
              i # CenterVeh =>
                Cardinality({k \in {"los", "olos", "orth", "par"} : i \in Members(k)}) = 1
        /\ Splits("olos", "los", "olos_los")
        /\ Splits("orth", "par", "nlos")
        /\ Splits("olos_los", "nlos", "other")
        /\ Members("other") = (0..(vehs.count - 1)) \ {CenterVeh}
        /\ \A k \in {"los", "olos", "orth", "par", "olos_los", "nlos", "other"} :
              CenterVeh \notin Members(k)

\* C1 witness: main_sim has completed on three vehicles, one of the others
\* classified OLOS and one orthogonal NLOS.
C1_Witness ==
    /\ pc = "done"
    /\ vehs.count = 3
    /\ Members("olos") # {}
    /\ Members("orth") # {}

\* C5: when main_sim has completed, every vehicle under 'par' has the stored
\* pathloss infinity and is in 'out_range' and not in 'in_range', whatever
\* the (finite) max_pl and its distance to the center.
C5_ParallelNeverInRange ==
    pc = "done" =>
        \A i \in Members("par") :
            /\ vehs.pathlosses[i + 1] = Infinity
            /\ i \in Members("out_range")
            /\ i \notin Members("in_range")

\* C5 witness: main_sim has completed with the largest threshold and a
\* parallel-NLOS vehicle standing where the center stands.
C5_Witness ==
    /\ pc = "done"
    /\ max_pl = MaxPl
    /\ \E i \in Members("par") :
          /\ vehs.coordinates[i + 1] = vehs.coordinates[CenterVeh + 1]
          /\ i \in Members("out_range")

\* the corner check_if_cons_orthogonal returned for NLOS vehicle i
CornerOf(i) ==
    coords_intersections[CHOOSE j \in 1..Len(vehs.idxs["nlos"]) : vehs.idxs["nlos"][j] = i]

\* the pathloss the Pathloss Model gives for the link from vehicle i to the
\* center
ModelPathloss(i) ==
    LET x == vehs.coordinates[i + 1]
        c == vehs.coordinates[CenterVeh + 1]
    IN  CASE i \in Members("olos") -> pathloss_olos(Abs(x - c))
          [] i \in Members("los")  -> pathloss_los(Abs(x - c))
          [] i \in Members("orth") ->
                pathloss_nlos(Abs(c - CornerOf(i)), Abs(x - CornerOf(i)))
          [] i \in Members("par")  -> Infinity

\* C6: when main_sim has completed, 'in_range' and 'out_range' partition
\* 'other', and a vehicle is in 'in_range' exactly when the pathloss the
\* Pathloss Model gives for its link to the center is below max_pl.
C6_InRangeIffModelPathlossBelow ==
    pc = "done" =>
        /\ Splits("in_range", "out_range", "other")
        /\ \A i \in Members("other") :
              i \in Members("in_range") <=> Less(ModelPathloss(i), max_pl)

\* the positions in calls of the set_pathlosses calls made before position
\* i that wrote the pathloss entry of vehicle idx
WritesBefore(i, idx) ==
    {j \in 1..(i - 1) :
        /\ calls[j].op = "set_pathlosses"
        /\ \E n \in 1..Len(calls[j].idxs) : calls[j].idxs[n] = idx}

\* C16: in main_sim allocate is called before any relation is written or
\* read; every pathloss entry the in-range step reads, which are the entries
\* at the indices of 'other', was written by exactly one earlier
\* set_pathlosses call, made through 'olos', 'los', 'orth' or 'par', so no
\* entry still unwritten since allocate is compared with the threshold; no
\* write fails; and the entry of the center vehicle is never written or read.
C16_ReadEntriesWrittenOnce ==
    /\ pc # "failed"
    /\ calls # <<>> => calls[1].op = "allocate"
    /\ \A i \in 1..Len(calls) :
          /\ calls[i].op = "set_pathlosses"
                => calls[i].key \in {"olos", "los", "orth", "par"}
          /\ calls[i].op = "get_pathlosses"
                => /\ calls[i].key = "other"
                   /\ \A n \in 1..Len(calls[i].idxs) :
                         Cardinality(WritesBefore(i, calls[i].idxs[n])) = 1
          /\ "center" \in DOMAIN vehs.idxs
                => \A n \in 1..Len(calls[i].idxs) : calls[i].idxs[n] # CenterVeh
    /\ pc = "done"
          => /\ calls[Len(calls)] = RelCall("get_pathlosses", "other",
                                            vehs.idxs["other"])
             /\ Len(calls) = 6

\* main_sim has completed for three vehicles, the two others in different
\* classes, one of them written through 'los' and one through 'par'
C16_Witness ==
    /\ pc = "done"
    /\ vehs.count = 3
    /\ Members("los") # {}
    /\ Members("par") # {}
    /\ Len(calls[Len(calls)].idxs) = 2

-----------------------------------------------------------------------------
(* main_sim_multi: all combinations of connections, by distance *)

\* the unordered pairs (i, j), i < j, of n vehicles in the order of
\* scipy's condensed distance vector
PdistPairs(n) ==
    LET ps == {p \in (0..(n - 1)) \X (0..(n - 1)) : p[1] < p[2]}
        before(q, p) == q[1] < p[1] \/ (q[1] = p[1] /\ q[2] < p[2])
        rank(p) == Cardinality({q \in ps : before(q, p)}) + 1
    IN  [k \in 1..Cardinality(ps) |-> CHOOSE p \in ps : rank(p) = k]

\* dist.pdist(vehs.coordinates), on the line y = 0
pdist(coords) ==
    LET pairs == PdistPairs(Len(coords))
    IN  [k \in 1..Len(pairs) |->
            Abs(coords[pairs[k][1] + 1] - coords[pairs[k][2] + 1])]

\* prop.veh_cons_are_nlos_all(points, buildings, max_dist): a pair farther
\* apart than max_dist is NLOS untested, any other pair is NLOS exactly when
\* its sightline crosses a building
veh_cons_are_nlos_all(points, buildings, cutoff) ==
    LET pairs == PdistPairs(Len(points))
        distances == pdist(points)
    IN  [k \in 1..Len(pairs) |->
            IF distances[k] > cutoff THEN TRUE
            ELSE buildings[{pairs[k][1], pairs[k][2]}]]

\* max(max_dist_nlos, max_dist_olos_los)
max_dist(dist_nlos, dist_olos_los) ==
    IF dist_nlos >= dist_olos_los THEN dist_nlos ELSE dist_olos_los

\* np.where(m)[0]
Where(m) == Mask(ARange(Len(m)), m)

\* an in-range test with the two thresholds taken for each other
is_in_range_swapped(nlos, distances, dist_olos_los, dist_nlos) ==
    [k \in 1..Len(distances) |->
        IF nlos[k] THEN distances[k] < dist_olos_los ELSE distances[k] < dist_nlos]

\* lines 111-113 and 124-130: the relations within the range of their class
is_in_range(nlos, distances, dist_olos_los, dist_nlos) ==
    LET idxs_olos_los == Where(Invert(nlos))
        idxs_nlos == Where(nlos)
        idxs_in_range_olos_los ==
            Mask(idxs_olos_los,
                 [i \in 1..Len(idxs_olos_los) |->
                     distances[idxs_olos_los[i] + 1] < dist_olos_los])
        idxs_in_range_nlos ==
            Mask(idxs_nlos,
                 [i \in 1..Len(idxs_nlos) |->
                     distances[idxs_nlos[i] + 1] < dist_nlos])
        idxs_in_range == idxs_in_range_olos_los \o idxs_in_range_nlos
    IN  [k \in 1..Len(distances) |->
            \E i \in 1..Len(idxs_in_range) : idxs_in_range[i] = k - 1]

\* dist.squareform(v): the square matrix of a condensed vector; the empty
\* vector gives a matrix of one row
squareform(v) ==
    LET d == IF Len(v) = 0 THEN 1
             ELSE CHOOSE n \in 2..(Len(v) + 1) : n * (n - 1) = 2 * Len(v)
        at(i, j) == d * i - ((i * (i + 1)) \div 2) + (j - i - 1)
    IN  [p \in (0..(d - 1)) \X (0..(d - 1)) |->
            IF p[1] = p[2] THEN FALSE
            ELSE IF p[1] < p[2] THEN v[at(p[1], p[2]) + 1]
            ELSE v[at(p[2], p[1]) + 1]]

\* nx.from_numpy_matrix(matrix)
from_numpy_matrix(matrix) ==
    LET nodes == {p[1] : p \in DOMAIN matrix}
    IN  [nodes |-> nodes,
         edges |-> {{p[1], p[2]} : p \in {q \in DOMAIN matrix : matrix[q]}}]

\* the nodes graph joins to node v by a path
RECURSIVE Reach(_, _)
Reach(graph, S) ==
    LET T == S \cup {w \in graph.nodes : \E u \in S : {u, w} \in graph.edges}
    IN  IF T = S THEN S ELSE Reach(graph, T)

\* nx.connected_component_subgraphs(graph)
connected_components(graph) == {Reach(graph, {v}) : v \in graph.nodes}

Min(S) == CHOOSE x \in S : \A y \in S : x <= y

\* a choice of the smallest cluster
cluster_max_smallest(graph) ==
    LET clusters == connected_components(graph)
    IN  CHOOSE c \in clusters :
            /\ \A o \in clusters : Cardinality(o) >= Cardinality(c)
            /\ \A o \in clusters :
                  Cardinality(o) = Cardinality(c) => Min(c) <= Min(o)

\* max(clusters, key=len): the first of the largest clusters, the clusters
\* coming in the order of their first node
cluster_max(graph) ==
    LET clusters == connected_components(graph)
    IN  CHOOSE c \in clusters :
            /\ \A o \in clusters : Cardinality(o) <= Cardinality(c)
            /\ \A o \in clusters :
                  Cardinality(o) = Cardinality(c) => Min(c) <= Min(o)

\* the elements of a set of numbers in ascending order
Sorted(S) ==
    [k \in 1..Cardinality(S) |->
        CHOOSE x \in S : Cardinality({y \in S : y <= x}) = k]

\* a complement that starts counting the vehicles at 1
not_cluster_max_nodes_from_one(count_veh, nodes) ==
    Mask([i \in 1..count_veh |-> i],
         Invert([i \in 1..count_veh |-> i \in nodes]))

\* np.arange(count_veh)[~np.in1d(np.arange(count_veh), cluster_max.nodes())]
not_cluster_max_nodes(count_veh, nodes) ==
    Mask(ARange(count_veh),
         Invert([i \in 1..count_veh |-> ARange(count_veh)[i] \in nodes]))

InitMulti ==
    /\ \E n \in 1..MaxVeh : \E points \in [1..n -> 0..MaxPos] :
          /\ vehs = Vehicles(points)
          /\ blocked \in [{{p[1], p[2]} : p \in DOMAIN squareform(pdist(points))}
                            \ {{i} : i \in 0..(n - 1)} -> BOOLEAN]
    /\ max_dist_olos_los \in 0..MaxDist
    /\ max_dist_nlos \in 0..MaxDist
    /\ ret = NoCall
    /\ pc = "multi_initialize"
    /\ max_pl = 0
    /\ is_nlos = <<>>
    /\ is_olos = <<>>
    /\ is_orthogonal = <<>>
    /\ coords_intersections = <<>>
    /\ graph_cons = [nodes |-> {}, edges |-> {}]
    /\ net_connectivity = <<0, 1>>
    /\ calls = <<>>
    /\ IdleNet

MultiFrame == UNCHANGED <<ret, max_pl, is_olos, is_orthogonal, coords_intersections,
                          max_dist_olos_los, max_dist_nlos, blocked, calls,
                          netVars>>

\* lines 98-104
MultiInitialize ==
    /\ pc = "multi_initialize"
    /\ vehs' = allocate(vehs, (vehs.count * (vehs.count - 1)) \div 2)
    /\ pc' = "multi_nlos"
    /\ UNCHANGED <<is_nlos, graph_cons, net_connectivity>>
    /\ MultiFrame

\* lines 106-117
MultiNlos ==
    /\ pc = "multi_nlos"
    /\ is_nlos' = veh_cons_are_nlos_all(get_points(vehs, None).value, blocked,
                                         max_dist(max_dist_nlos, max_dist_olos_los))
    /\ pc' = "multi_in_range"
    /\ UNCHANGED <<vehs, graph_cons, net_connectivity>>
    /\ MultiFrame

\* lines 119-132
MultiInRange ==
    /\ pc = "multi_in_range"
    /\ graph_cons' = from_numpy_matrix(squareform(
            is_in_range(is_nlos, pdist(vehs.coordinates),
                        max_dist_olos_los, max_dist_nlos)))
    /\ pc' = "multi_cluster"
    /\ UNCHANGED <<vehs, is_nlos, net_connectivity>>
    /\ MultiFrame

\* lines 134-147
MultiCluster ==
    /\ pc = "multi_cluster"
    /\ LET nodes == cluster_max(graph_cons)
       IN  /\ net_connectivity' = <<Cardinality(nodes), vehs.count>>
           /\ vehs' = add_key(add_key(vehs, "cluster_max", Sorted(nodes)),
                               "not_cluster_max",
                               not_cluster_max_nodes(vehs.count, nodes))
    /\ pc' = "multi_done"
    /\ UNCHANGED <<is_nlos, graph_cons>>
    /\ MultiFrame

NextMulti ==
    \/ MultiInitialize
    \/ MultiNlos
    \/ MultiInRange
    \/ MultiCluster

SpecMulti == InitMulti /\ [][NextMulti]_vars

-----------------------------------------------------------------------------
(* Claims about main_sim_multi *)

VehPairs == {p \in (0..(vehs.count - 1)) \X (0..(vehs.count - 1)) : p[1] < p[2]}

PairDistance(p) == Abs(vehs.coordinates[p[1] + 1] - vehs.coordinates[p[2] + 1])

GraphBuilt == pc \in {"multi_cluster", "multi_done"}

\* C2: once main_sim_multi has built the connectivity graph, two distinct
\* vehicles are joined exactly when their sightline crosses a building and
\* they are closer than max_dist_nlos, or it crosses none and they are
\* closer than max_dist_olos_los; the cutoff handed to the NLOS test, which
\* takes every pair beyond it for NLOS untested, changes no edge.
C2_EdgeIffInRangeOfTrueClass ==
    GraphBuilt =>
        /\ graph_cons.nodes = 0..(vehs.count - 1)
        /\ \A e \in graph_cons.edges :
              \E p \in VehPairs : e = {p[1], p[2]}
        /\ \A p \in VehPairs :
              {p[1], p[2]} \in graph_cons.edges <=>
                  \/ blocked[{p[1], p[2]}] /\ PairDistance(p) < max_dist_nlos
                  \/ ~blocked[{p[1], p[2]}] /\ PairDistance(p) < max_dist_olos_los

\* C2 witness: the graph is built, it has an edge, and some pair with a free
\* sightline lies beyond the cutoff and was taken for NLOS.
C2_Witness ==
    /\ GraphBuilt
    /\ graph_cons.edges # {}
    /\ vehs.count = 3
    /\ \E k \in 1..Len(is_nlos) :
          LET p == PdistPairs(vehs.count)[k] IN
          /\ PairDistance(p) > max_dist(max_dist_nlos, max_dist_olos_los)
          /\ ~blocked[{p[1], p[2]}]
          /\ is_nlos[k]

\* C is a connected component of the connectivity graph: no edge leaves it
\* and every split of it is crossed by an edge
IsComponent(C) ==
    /\ C # {}
    /\ C \subseteq graph_cons.nodes
    /\ \A u \in C, w \in graph_cons.nodes \ C : {u, w} \notin graph_cons.edges
    /\ \A S \in (SUBSET C) \ {{}, C} :
          \E u \in S, w \in C \ S : {u, w} \in graph_cons.edges

Components == {C \in SUBSET graph_cons.nodes : IsComponent(C)}

Isolated == {v \in graph_cons.nodes : \A w \in graph_cons.nodes : {v, w} \notin graph_cons.edges}

\* C3: the ratio main_sim_multi returns for n >= 1 vehicles is the size of
\* a largest connected component over n, lies in [0, 1], and is 1 exactly
\* when all n vehicles form one connected component.
C3_RatioIsLargestComponentShare ==
    pc = "multi_done" =>
        LET num == net_connectivity[1]
            den == net_connectivity[2]
        IN  /\ den = vehs.count
            /\ den >= 1
            /\ \E C \in Components : Cardinality(C) = num
            /\ \A C \in Components : Cardinality(C) <= num
            /\ 0 <= num
            /\ num <= den
            /\ num = den <=> IsComponent(0..(vehs.count - 1))

\* C3 witness: main_sim_multi has returned 2/3: three vehicles, two of them
\* in range of each other and the third of neither.
C3_Witness ==
    /\ pc = "multi_done"
    /\ net_connectivity = <<2, 3>>
    /\ Cardinality(Isolated) = 1

\* C4, as stated: after main_sim_multi 'cluster_max' and 'not_cluster_max'
\* are disjoint and together list the vehicles 0..n-1, 'cluster_max' is a
\* connected component of maximum size, and for n > 1 every vehicle without
\* an in-range neighbor is in 'not_cluster_max'.
C4_IsolatedAlwaysOutsideCluster ==
    pc = "multi_done" =>
        /\ Members("cluster_max") \cap Members("not_cluster_max") = {}
        /\ Members("cluster_max") \cup Members("not_cluster_max") = 0..(vehs.count - 1)
        /\ IsComponent(Members("cluster_max"))
        /\ \A C \in Components : Cardinality(C) <= Cardinality(Members("cluster_max"))
        /\ vehs.count > 1 => Isolated \subseteq Members("not_cluster_max")

\* C4, amended: after main_sim_multi 'cluster_max' and 'not_cluster_max' are
\* disjoint and together list the vehicles 0..n-1, 'cluster_max' is a
\* connected component of maximum size, and every vehicle without an
\* in-range neighbor is in 'not_cluster_max' provided some pair is in range;
\* when no pair is in range 'cluster_max' is one vehicle alone and all the
\* others are in 'not_cluster_max'.
C4_IsolatedOutsideClusterIfAnyEdge ==
    pc = "multi_done" =>
        /\ Members("cluster_max") \cap Members("not_cluster_max") = {}
        /\ Members("cluster_max") \cup Members("not_cluster_max") = 0..(vehs.count - 1)
        /\ Distinct(vehs.idxs["cluster_max"])
        /\ Distinct(vehs.idxs["not_cluster_max"])
        /\ IsComponent(Members("cluster_max"))
        /\ \A C \in Components : Cardinality(C) <= Cardinality(Members("cluster_max"))
        /\ graph_cons.edges # {} => Isolated \subseteq Members("not_cluster_max")
        /\ graph_cons.edges = {} =>
              /\ Cardinality(Members("cluster_max")) = 1
              /\ Cardinality(Members("not_cluster_max")) = vehs.count - 1

\* C4 witness: main_sim_multi has completed on three vehicles, two in range
\* of each other and the third, with no neighbor, under 'not_cluster_max'.
C4_Witness ==
    /\ pc = "multi_done"
    /\ vehs.count = 3
    /\ graph_cons.edges # {}
    /\ \E v \in Isolated : v \in Members("not_cluster_max")

-----------------------------------------------------------------------------
(* Streets: intersections stand at even x on the line y = 0, a street is an *)
(* edge <<u, v, data>> whose data may hold a 'geometry', and a geometry     *)
(* (shapely LineString) is the sequence of the x of its points.             *)

\* most streets of a street graph
MaxStreets == 2
\* most vehicles prepare_network is followed for
MaxCount == 2

\* the intersections, and the x at which each stands
StreetNodes == {1, 2}
NodeX(n) == 2 * (n - 1)
\* a point off the straight way between two intersections
Bend == 4
\* the density magnitudes and boundary areas handed to prepare_network
DensityValues == {0, 1}
Areas == {0, 2}
DensityTypes == {"absolute", "length", "area", "volume"}
\* np.random.random() in halves: the start of the street or its middle
Fractions == {0, 1}

\* an edge attribute dictionary without, and with, the key 'geometry'
NoData == [k \in {} |-> <<>>]
WithGeometry(line) == [geometry |-> line]

\* geom.LineString([(x1, y1), (x2, y2)])
LineString(x1, x2) == <<x1, x2>>

RECURSIVE LineLength(_)
\* LineString.length
LineLength(line) ==
    IF Len(line) < 2 THEN 0
    ELSE Abs(line[2] - line[1]) + LineLength(Tail(line))

RECURSIVE Interpolate(_, _)
\* LineString.interpolate(arc): the point at distance arc from the start
Interpolate(line, arc) ==
    IF Len(line) = 1 THEN line[1]
    ELSE LET step == Abs(line[2] - line[1])
         IN  IF arc <= step
             THEN IF line[2] >= line[1] THEN line[1] + arc ELSE line[1] - arc
             ELSE Interpolate(Tail(line), arc - step)

\* LineString.project(point): the first distance along the line nearest to point
Project(line, point) ==
    LET arcs == 0..LineLength(line)
        near(a) == Abs(Interpolate(line, a) - point)
        best == {a \in arcs : \A b \in arcs : near(a) <= near(b)}
    IN  CHOOSE a \in best : \A b \in best : a <= b

\* the distance along the line at which its i-th point lies
ArcOf(line, i) == LineLength(SubSeq(line, 1, i))

\* geometry.split_line_at_point(line, point): the part of the line before
\* the point and the part after it, each ending at the point
split_line_at_point(line, point) ==
    LET arc == Project(line, point)
        before == {i \in 1..Len(line) : ArcOf(line, i) < arc}
        after == {i \in 1..Len(line) : ArcOf(line, i) > arc}
    IN  <<SubSeq(line, 1, Cardinality(before)) \o <<point>>,
          <<point>> \o SubSeq(line, Len(line) - Cardinality(after) + 1, Len(line))>>

-----------------------------------------------------------------------------
(* osmnx_addons.py: add_geometry, check_geometry *)

\* an add_geometry that draws the straight segment on every edge
add_geometry_everywhere(streets) ==
    [streets EXCEPT !.edges = [i \in 1..Len(streets.edges) |->
        LET edge == streets.edges[i]
        IN  [edge EXCEPT !.data = [k \in (DOMAIN edge.data) \cup {"geometry"} |->
                IF k = "geometry"
                THEN LineString(streets.node[edge.u].x, streets.node[edge.v].x)
                ELSE edge.data[k]]]]]

add_geometry(streets) ==
    [streets EXCEPT !.edges = [i \in 1..Len(streets.edges) |->
        LET edge == streets.edges[i]
        IN  IF "geometry" \notin DOMAIN edge.data
            THEN [edge EXCEPT !.data = [k \in (DOMAIN edge.data) \cup {"geometry"} |->
                     IF k = "geometry"
                     THEN LineString(streets.node[edge.u].x, streets.node[edge.v].x)
                     ELSE edge.data[k]]]
            ELSE edge]]

check_geometry(streets) ==
    \A i \in 1..Len(streets.edges) : "geometry" \in DOMAIN streets.edges[i].data

-----------------------------------------------------------------------------
(* vehicles.py: choose_random_streets, choose_random_point, generate_vehs *)

RECURSIVE total_length(_)
\* total_length = sum(lengths)
total_length(lengths) ==
    IF lengths = <<>> THEN 0 ELSE Head(lengths) + total_length(Tail(lengths))

\* geometry.get_street_lengths(graph_streets): the length of every street
get_street_lengths(streets) ==
    [i \in 1..Len(streets.edges) |-> LineLength(streets.edges[i].data.geometry)]

\* the error prepare_network raises itself, and the one numpy raises
InvalidDensity == "ValueError: Density type not supported"
InvalidProbabilities == "ValueError: numpy.random.choice"

\* every outcome of choose_random_streets.  A total length of zero makes
\* every probability NaN (or leaves none): np.random.choice then raises its
\* own ValueError, or, in the builds that only test abs(sum(p) - 1) > atol,
\* takes the NaN and returns index 0 for every draw.
choose_random_streets(lengths, count) ==
    IF total_length(lengths) = 0
    THEN {Raise(InvalidProbabilities)}
         \cup (IF Len(lengths) > 0 THEN {Return(Zeros(count))} ELSE {})
    ELSE {Return(indices) :
             indices \in [1..count -> {i - 1 : i \in {j \in 1..Len(lengths) :
                                                       lengths[j] > 0}}]}

\* choose_random_point(street)[0] with np.random.random() = fraction / 2
choose_random_point(street, fraction) ==
    Interpolate(street, (fraction * LineLength(street)) \div 2)

\* get_vehicles_from_streets: one random point on each chosen street
get_vehicles_from_streets(graph_streets_, street_idxs, fractions) ==
    [k \in 1..Len(street_idxs) |->
        choose_random_point(graph_streets_.edges[street_idxs[k] + 1].data.geometry,
                            fractions[k])]

\* Vehicles(points_vehs, graphs_vehs)
VehiclesOn(points, graphs) == [Vehicles(points) EXCEPT !.graphs = graphs]

\* The nodes of a vehicle's graph are the str 'v' + str(iteration) and the
\* int ids of two intersections; each is written here with its type.
VehNode(iteration) == <<"v", iteration>>
IntNode(n) == <<"int", n>>

\* the edge generate_vehs adds from the vehicle node to an intersection
VehEdge(node, end, line) ==
    [u |-> node, v |-> end,
     data |-> [geometry |-> line, length |-> LineLength(line), is_veh_edge |-> TRUE]]

\* the graph of one iteration of generate_vehs that forgets the second edge
graph_iter_one_edge(street, point_veh, iteration) ==
    LET node == VehNode(iteration)
        parts == split_line_at_point(street.data.geometry, point_veh)
    IN  [node_veh |-> node,
         nodes |-> {node} \cup {IntNode(street.u), IntNode(street.v)},
         edges |-> <<VehEdge(node, IntNode(street.u), parts[1])>>]

\* the graph of one iteration of generate_vehs: a MultiGraph keeps a node
\* once however often it is added, and keeps every edge added
graph_iter(street, point_veh, iteration) ==
    LET node == VehNode(iteration)
        parts == split_line_at_point(street.data.geometry, point_veh)
    IN  [node_veh |-> node,
         nodes |-> {node} \cup {IntNode(street.u), IntNode(street.v)},
         edges |-> <<VehEdge(node, IntNode(street.u), parts[1]),
                     VehEdge(node, IntNode(street.v), parts[2])>>]

\* generate_vehs(graph_streets, street_idxs) with the random draws given
generate_vehs(graph_streets_, street_idxs, fractions) ==
    LET points_vehs == get_vehicles_from_streets(graph_streets_, street_idxs, fractions)
        graphs_vehs == [k \in 1..Len(street_idxs) |->
                           graph_iter(graph_streets_.edges[street_idxs[k] + 1],
                                      points_vehs[k], k - 1)]
    IN  VehiclesOn(points_vehs, graphs_vehs)

-----------------------------------------------------------------------------
(* main_sim_osm_pathloss.py: prepare_network *)

\* the streets a map may hold: with no geometry, or with one that bends
StreetEdges ==
    UNION {{[u |-> u, v |-> v, data |-> data] :
               data \in {NoData, WithGeometry(<<NodeX(u), Bend, NodeX(v)>>)}} :
           u \in StreetNodes, v \in StreetNodes}

\* the street graphs load_place or download_place may return
StreetGraphs ==
    {[node |-> [n \in StreetNodes |-> [x |-> NodeX(n)]], edges |-> edges] :
        edges \in SeqsUpTo(StreetEdges, MaxStreets)}

\* the locals of prepare_network when it is entered
PrepLocals(density_veh, density_type) ==
    [density_veh |-> density_veh, density_type |-> density_type, area |-> 0,
     street_lengths |-> <<>>, count_veh |-> 0, rand_street_idxs |-> <<>>,
     error |-> "", chosen |-> FALSE, generated |-> FALSE]

InitPrepare ==
    /\ \E density_veh \in DensityValues, density_type \in DensityTypes :
          prep = PrepLocals(density_veh, density_type)
    /\ graph_streets = <<>>
    /\ vehs = Vehicles(<<>>)
    /\ ret = NoCall
    /\ pc = "prepare_load"
    /\ disk = <<>>
    /\ load = <<>>
    /\ IdleSim

PrepareFrame == UNCHANGED <<ret, simVars, calls, disk, load>>

\* lines 28-48: the map data of the place, from disk or from the internet
PrepareLoad ==
    /\ pc = "prepare_load"
    /\ \E streets \in StreetGraphs, area \in Areas :
          /\ graph_streets' = streets
          /\ prep' = [prep EXCEPT !.area = area]
    /\ pc' = "prepare_wave"
    /\ UNCHANGED vehs
    /\ PrepareFrame

\* lines 50-63: the wave graph built here is read by no later step
PrepareWave ==
    /\ pc = "prepare_wave"
    /\ graph_streets' = add_geometry(graph_streets)
    /\ pc' = "prepare_density"
    /\ UNCHANGED <<vehs, prep>>
    /\ PrepareFrame

\* lines 65-78
PrepareDensity ==
    /\ pc = "prepare_density"
    /\ LET street_lengths == get_street_lengths(graph_streets)
           with_lengths == [prep EXCEPT !.street_lengths = street_lengths]
       IN  CASE prep.density_type = "absolute" ->
                  /\ prep' = [with_lengths EXCEPT !.count_veh = prep.density_veh]
                  /\ pc' = "prepare_choose"
             [] prep.density_type = "length" ->
                  /\ prep' = [with_lengths EXCEPT !.count_veh =
                                 prep.density_veh * total_length(street_lengths)]
                  /\ pc' = "prepare_choose"
             [] prep.density_type = "area" ->
                  /\ prep' = [with_lengths EXCEPT !.count_veh =
                                 prep.density_veh * prep.area]
                  /\ pc' = "prepare_choose"
             [] OTHER ->
                  /\ prep' = [with_lengths EXCEPT !.error = InvalidDensity]
                  /\ pc' = "prepare_failed"
    /\ UNCHANGED <<vehs, graph_streets>>
    /\ PrepareFrame

\* lines 80-82, followed for at most MaxCount vehicles
PrepareChooseStreets ==
    /\ pc = "prepare_choose"
    /\ prep.count_veh <= MaxCount
    /\ \E outcome \in choose_random_streets(prep.street_lengths, prep.count_veh) :
          IF outcome.status = "ok"
          THEN /\ prep' = [prep EXCEPT !.rand_street_idxs = outcome.value,
                                       !.chosen = TRUE]
               /\ pc' = "prepare_generate"
          ELSE /\ prep' = [prep EXCEPT !.error = outcome.status]
               /\ pc' = "prepare_failed"
    /\ UNCHANGED <<vehs, graph_streets>>
    /\ PrepareFrame

\* lines 84-92
PrepareGenerateVehs ==
    /\ pc = "prepare_generate"
    /\ \E fractions \in [1..prep.count_veh -> Fractions] :
          vehs' = generate_vehs(graph_streets, prep.rand_street_idxs, fractions)
    /\ prep' = [prep EXCEPT !.generated = TRUE]
    /\ pc' = "prepare_done"
    /\ UNCHANGED graph_streets
    /\ PrepareFrame

NextPrepare ==
    \/ PrepareLoad
    \/ PrepareWave
    \/ PrepareDensity
    \/ PrepareChooseStreets
    \/ PrepareGenerateVehs

SpecPrepare == InitPrepare /\ [][NextPrepare]_vars

-----------------------------------------------------------------------------
(* Claims about prepare_network *)

SupportedDensityTypes == {"absolute", "length", "area"}

\* C11, first half: when the density type is none of 'absolute', 'length',
\* 'area', the density step of prepare_network ends the run with the
\* invalid-density error, with no street chosen and no vehicle generated.
C11_UnsupportedTypeFailsFirst ==
    [][(pc = "prepare_density" /\ prep.density_type \notin SupportedDensityTypes)
          => /\ pc' = "prepare_failed"
             /\ prep'.error = InvalidDensity
             /\ ~prep'.chosen /\ ~prep'.generated
             /\ vehs' = vehs]_vars

\* C11: prepare_network fails with the invalid-density error, before any
\* street is chosen or any vehicle is generated, when the density type is
\* not one of 'absolute', 'length', 'area'; and choose_random_streets fails
\* with that error when the total street length is zero.
C11_InvalidDensityErrors ==
    [][/\ (pc = "prepare_density" /\ prep.density_type \notin SupportedDensityTypes)
          => /\ pc' = "prepare_failed"
             /\ prep'.error = InvalidDensity
             /\ ~prep'.chosen /\ ~prep'.generated
             /\ vehs' = vehs
       /\ (pc = "prepare_choose" /\ total_length(prep.street_lengths) = 0)
          => /\ pc' = "prepare_failed"
             /\ prep'.error = InvalidDensity]_vars

-----------------------------------------------------------------------------
(* osmnx_addons.py: load_network, load_place, download_place.  Buildings  *)
(* and boundary are known by where they came from: "cached" for what lay   *)
(* on disk before the call, "fetched" for what the call got from the       *)
(* internet.  The streets are a graph, and the map has gained a street     *)
(* since it was cached.                                                    *)

\* the files of one place under data/
Blobs == {"streets", "buildings", "boundary", "wave", "buildings_simpl"}
\* the tolerances load_network is called with
Tolerances == {0, 1}

\* simplify_buildings(buildings)
Simplified(buildings) == <<"simplified", buildings>>
\* graph_streets.to_undirected() with the edges of prop.add_edges_if_los
WaveOf(streets, buildings) == <<"wave", streets, buildings>>

\* the street graph on disk before the call, and the one the internet gives
CachedStreets ==
    [node |-> [n \in StreetNodes |-> [x |-> NodeX(n)]],
     edges |-> <<[u |-> 1, v |-> 2, data |-> NoData]>>]
FetchedStreets ==
    [node |-> [n \in StreetNodes |-> [x |-> NodeX(n)]],
     edges |-> <<[u |-> 1, v |-> 2, data |-> NoData],
                 [u |-> 2, v |-> 2,
                  data |-> WithGeometry(<<NodeX(2), Bend, NodeX(2)>>)]>>]

\* what each blob holds when it lies on disk before the call
Cached(blob) ==
    CASE blob = "streets" -> CachedStreets
      [] blob = "wave" -> WaveOf(add_geometry(CachedStreets), "cached")
      [] blob = "buildings_simpl" -> Simplified("cached")
      [] OTHER -> "cached"

\* os.path.isfile(filename)
isfile(d, blob) == blob \in DOMAIN d.files

\* pickle.dump(obj, file) with the file opened 'wb'
dump(d, blob, obj) ==
    [d EXCEPT !.files = [b \in (DOMAIN d.files) \cup {blob} |->
                            IF b = blob THEN obj ELSE d.files[b]]]

Read(blob) == <<"read", blob>>
Write(blob) == <<"write", blob>>
Fetch(blob) == <<"fetch", blob>>

\* a load_place that saves the streets again after reading them
load_place_resaving(d, tolerance) ==
    [disk |-> d,
     ops |-> <<Read("buildings"), Read("streets"), Write("streets"),
               Read("boundary")>>,
     data |-> [streets |-> d.files["streets"],
               buildings |-> d.files["buildings"],
               boundary |-> d.files["boundary"]]]

\* load_place(file_prefix, tolerance): the data, the file accesses made, and
\* the files afterwards
load_place(d, tolerance) ==
    LET simpl == "buildings_simpl"
        tail == <<Read("streets"), Read("boundary")>>
        rest(buildings) == [streets |-> d.files["streets"],
                            buildings |-> buildings,
                            boundary |-> d.files["boundary"]]
    IN  IF tolerance = 0
        THEN [disk |-> d, ops |-> <<Read("buildings")>> \o tail,
              data |-> rest(d.files["buildings"])]
        ELSE IF isfile(d, simpl)
        THEN [disk |-> d, ops |-> <<Read(simpl)>> \o tail,
              data |-> rest(d.files[simpl])]
        ELSE [disk |-> dump(d, simpl, Simplified(d.files["buildings"])),
              ops |-> <<Read("buildings"), Write(simpl)>> \o tail,
              data |-> rest(Simplified(d.files["buildings"]))]

\* download_place(place, which_result, tolerance)
download_place(d, tolerance) ==
    LET simpl == "buildings_simpl"
        d1 == dump(d, "streets", FetchedStreets)
        d2 == dump(d1, "buildings", "fetched")
        d3 == IF tolerance # 0 THEN dump(d2, simpl, Simplified("fetched")) ELSE d2
        d4 == dump(d3, "boundary", "fetched")
    IN  [disk |-> d4,
         ops |-> <<Fetch("streets"), Write("streets"), Fetch("boundary"),
                   Fetch("buildings"), Write("buildings")>>
                 \o (IF tolerance # 0 THEN <<Write(simpl)>> ELSE <<>>)
                 \o <<Write("boundary")>>,
         data |-> [streets |-> FetchedStreets,
                   buildings |-> IF tolerance # 0 THEN Simplified("fetched")
                                 ELSE "fetched",
                   boundary |-> "fetched"]]

\* the outcome of os.mkdirs('data/'): the module os has no mkdirs
NoMkdirs == "AttributeError: module 'os' has no attribute 'mkdirs'"

\* the locals of load_network when it is entered, with the files it found
LoadLocals(overwrite, tolerance, found) ==
    [overwrite |-> overwrite, tolerance |-> tolerance, found |-> found,
     ops |-> <<>>, gdf_buildings |-> "", gdf_boundary |-> "",
     graph_streets_wave |-> "", error |-> ""]

InitLoad ==
    /\ \E dir \in BOOLEAN, found \in SUBSET Blobs :
          /\ ~dir => found = {}
          /\ disk = [dir |-> dir, files |-> [b \in found |-> Cached(b)]]
          /\ \E overwrite \in BOOLEAN, tolerance \in Tolerances :
                load = LoadLocals(overwrite, tolerance, found)
    /\ graph_streets = <<>>
    /\ prep = <<>>
    /\ vehs = Vehicles(<<>>)
    /\ ret = NoCall
    /\ pc = "load_mkdir"
    /\ IdleSim

LoadFrame == UNCHANGED <<vehs, ret, prep, simVars, calls>>

\* lines 19-32
LoadMkdir ==
    /\ pc = "load_mkdir"
    /\ IF disk.dir
       THEN /\ pc' = "load_data"
            /\ load' = load
       ELSE /\ pc' = "load_failed"
            /\ load' = [load EXCEPT !.error = NoMkdirs]
    /\ UNCHANGED <<disk, graph_streets>>
    /\ LoadFrame

\* lines 34-51
LoadData ==
    /\ pc = "load_data"
    /\ LET place ==
               IF /\ ~load.overwrite
                  /\ isfile(disk, "streets")
                  /\ isfile(disk, "buildings")
                  /\ isfile(disk, "boundary")
               THEN load_place(disk, load.tolerance)
               ELSE download_place(disk, load.tolerance)
       IN  /\ disk' = place.disk
           /\ graph_streets' = add_geometry(place.data.streets)
           /\ load' = [load EXCEPT !.ops = @ \o place.ops,
                                   !.gdf_buildings = place.data.buildings,
                                   !.gdf_boundary = place.data.boundary]
    /\ pc' = "load_wave"
    /\ LoadFrame

\* lines 53-76
LoadWave ==
    /\ pc = "load_wave"
    /\ IF ~load.overwrite /\ isfile(disk, "wave")
       THEN /\ load' = [load EXCEPT !.ops = Append(@, Read("wave")),
                                    !.graph_streets_wave = disk.files["wave"]]
            /\ disk' = disk
       ELSE LET graph_streets_wave == WaveOf(graph_streets, load.gdf_buildings)
            IN  /\ load' = [load EXCEPT !.ops = Append(@, Write("wave")),
                                        !.graph_streets_wave = graph_streets_wave]
                /\ disk' = dump(disk, "wave", graph_streets_wave)
    /\ pc' = "load_done"
    /\ UNCHANGED graph_streets
    /\ LoadFrame

NextLoad ==
    \/ LoadMkdir
    \/ LoadData
    \/ LoadWave

SpecLoad == InitLoad /\ [][NextLoad]_vars

-----------------------------------------------------------------------------
(* Claims about load_network *)

\* the blobs load_network has accessed in the given way
Accessed(kind) == {load.ops[i][2] : i \in {j \in 1..Len(load.ops) :
                                              load.ops[j][1] = kind}}

MapBlobs == {"streets", "buildings", "boundary"}

\* the call found streets, buildings and boundary but no wave graph, and
\* was not told to overwrite
OnlyWaveMissing ==
    /\ ~load.overwrite
    /\ MapBlobs \subseteq load.found
    /\ "wave" \notin load.found

\* the three map blobs hold what they held before the call
MapBlobsKept == \A b \in MapBlobs : isfile(disk, b) /\ disk.files[b] = Cached(b)

\* the wave graph returned was made in this call from its own street graph
WaveRegenerated ==
    /\ load.graph_streets_wave = WaveOf(graph_streets, load.gdf_buildings)
    /\ isfile(disk, "wave")
    /\ disk.files["wave"] = load.graph_streets_wave

\* C12 as stated: without overwrite, with streets, buildings and boundary on
\* disk and the wave graph missing, load_network writes the wave graph and
\* nothing else, reads streets, buildings and boundary without fetching or
\* rewriting them, and leaves all four blobs on disk.
C12_OnlyWaveWritten ==
    (pc = "load_done" /\ OnlyWaveMissing)
        => /\ Accessed("write") = {"wave"}
           /\ Accessed("fetch") = {}
           /\ MapBlobs \subseteq Accessed("read")
           /\ MapBlobsKept
           /\ WaveRegenerated

\* C12 amended: the above holds for tolerance 0.  For another tolerance the
\* simplified buildings stand in for the buildings: their blob is read in
\* place of the buildings blob when it is on disk, and is otherwise made
\* from the buildings blob and written next to the wave graph.
C12_OnlyWaveAndSimplifiedWritten ==
    (pc = "load_done" /\ OnlyWaveMissing)
        => LET simplify == load.tolerance # 0
               have == "buildings_simpl" \in load.found
           IN  /\ Accessed("write") =
                     {"wave"} \cup (IF simplify /\ ~have THEN {"buildings_simpl"}
                                    ELSE {})
               /\ Accessed("fetch") = {}
               /\ Accessed("read") =
                     {"streets", "boundary"}
                     \cup (IF simplify /\ have THEN {"buildings_simpl"}
                           ELSE {"buildings"})
               /\ MapBlobsKept
               /\ WaveRegenerated

C12_Witness ==
    /\ pc = "load_done"
    /\ OnlyWaveMissing
    /\ load.tolerance = 0
    /\ Write("wave") = load.ops[Len(load.ops)]

\* C13: when any one of the streets, buildings or boundary blobs is absent
\* at the start, load_network fetches and saves streets, buildings and
\* boundary anew and returns a wave graph generated from the street graph
\* it fetched, not one read from a wave-graph blob.
C13_AbsentBlobRegeneratesAll ==
    (pc \in {"load_done", "load_failed"} /\ ~(MapBlobs \subseteq load.found))
        => /\ pc = "load_done"
           /\ MapBlobs \subseteq Accessed("fetch")
           /\ MapBlobs \subseteq Accessed("write")
           /\ "wave" \notin Accessed("read")
           /\ load.graph_streets_wave =
                 WaveOf(add_geometry(FetchedStreets), load.gdf_buildings)

-----------------------------------------------------------------------------
(* Claims about add_geometry and generate_vehs *)

HasGeometry(edge) == "geometry" \in DOMAIN edge.data

\* C14: after add_geometry(streets) every edge carries a geometry
\* (check_geometry returns true); an edge that had none gets the straight
\* segment between the coordinates of its two endpoints, an edge that had
\* one is unchanged, no edge is added or removed, and a second
\* add_geometry changes nothing.
C14_AddGeometryCompletesAndKeeps ==
    [][pc = "prepare_wave"
          => /\ check_geometry(graph_streets')
             /\ Len(graph_streets'.edges) = Len(graph_streets.edges)
             /\ graph_streets'.node = graph_streets.node
             /\ \A i \in 1..Len(graph_streets.edges) :
                   LET old == graph_streets.edges[i]
                       new == graph_streets'.edges[i]
                   IN  IF HasGeometry(old)
                       THEN new = old
                       ELSE /\ new.u = old.u /\ new.v = old.v
                            /\ new.data.geometry =
                                  <<graph_streets.node[old.u].x,
                                    graph_streets.node[old.v].x>>
             /\ add_geometry(graph_streets') = graph_streets']_vars

\* add_geometry has run on a graph that held a street with a geometry of
\* its own and a street without one
C14_Witness ==
    /\ pc = "prepare_density"
    /\ \E i, j \in 1..Len(graph_streets.edges) :
          /\ Len(graph_streets.edges[i].data.geometry) = 3
          /\ Len(graph_streets.edges[j].data.geometry) = 2

\* the street vehicle k (counted from 0) was put on, and its graph
StreetOf(k) == graph_streets.edges[prep.rand_street_idxs[k + 1] + 1]
GraphOf(k) == vehs.graphs[k + 1]

\* the graph of vehicle k has two edges, one from the vehicle node to each
\* end of its street, both vehicle edges, whose lengths add up to the
\* length of the street
TwoVehEdges(k) ==
    LET graph == GraphOf(k)
        street == StreetOf(k)
    IN  /\ graph.node_veh = VehNode(k)
        /\ Len(graph.edges) = 2
        /\ graph.edges[1].u = VehNode(k) /\ graph.edges[1].v = IntNode(street.u)
        /\ graph.edges[2].u = VehNode(k) /\ graph.edges[2].v = IntNode(street.v)
        /\ \A e \in 1..2 :
              /\ graph.edges[e].data.is_veh_edge
              /\ graph.edges[e].data.length =
                    LineLength(graph.edges[e].data.geometry)
        /\ graph.edges[1].data.length + graph.edges[2].data.length
              = LineLength(street.data.geometry)

\* C15 as stated: for every selected street, a street from an intersection
\* to itself included, the graph of vehicle k has exactly three nodes, the
\* node 'v'+k and the two ends of the street, and exactly two vehicle edges,
\* one to each end, whose lengths sum to the length of the street.
C15_ThreeNodesTwoEdges ==
    pc = "prepare_done"
        => \A k \in 0..(vehs.count - 1) :
              /\ Cardinality(GraphOf(k).nodes) = 3
              /\ GraphOf(k).nodes =
                    {VehNode(k), IntNode(StreetOf(k).u), IntNode(StreetOf(k).v)}
              /\ TwoVehEdges(k)

\* C15 amended: the nodes are the node 'v'+k and the ends of the street,
\* which are three nodes when the ends differ and two when the street
\* leads from an intersection to itself; the two edges are then parallel
\* edges between the same two nodes.
C15_EndNodesTwoEdges ==
    pc = "prepare_done"
        => \A k \in 0..(vehs.count - 1) :
              /\ Cardinality(GraphOf(k).nodes) =
                    (IF StreetOf(k).u = StreetOf(k).v THEN 2 ELSE 3)
              /\ GraphOf(k).nodes =
                    {VehNode(k), IntNode(StreetOf(k).u), IntNode(StreetOf(k).v)}
              /\ TwoVehEdges(k)

\* vehicles were generated on a street between two intersections and on a
\* street from an intersection to itself, one of them off the street's start
C15_Witness ==
    /\ pc = "prepare_done"
    /\ \E j, k \in 0..(vehs.count - 1) :
          /\ StreetOf(j).u # StreetOf(j).v
          /\ StreetOf(k).u = StreetOf(k).v
          /\ GraphOf(k).edges[1].data.length > 0
          /\ GraphOf(k).edges[2].data.length > 0

====
